---- MODULE Spec2Model ----
(***************************************************************************)
(* The bounded-concurrency batches of the Agora pipeline:                  *)
(*   scraper.py  process_article / scraper_agent                           *)
(*   analyzer.py analyze_article / analyzer_agent                          *)
(*   ranker.py   score_article   / ranker_agent                            *)
(* One run of the model is one batch of one stage: the stage's agent       *)
(* creates one coroutine per record, hands them to asyncio.gather and      *)
(* builds its output from the results.  A step of the model is the code a  *)
(* coroutine runs between two awaits (asyncio runs it without              *)
(* interruption).                                                          *)
(* A second specification, FetcherSpec, is one run of fetcher_agent         *)
(* (fetcher.py) over the entries of its feeds, followed by the filter pass  *)
(* of scraper_agent over the records it saved.  A third, RankerSpec, is one *)
(* run of ranker_agent (ranker.py) over the records of a stage-3 file,      *)
(* label by label, followed by reporter_agent (reporter.py) over its file.  *)
(***************************************************************************)
EXTENDS Integers, Sequences, FiniteSets, TLC

VARIABLES
    stage,      \* the stage this batch belongs to
    pc,         \* pc[i]: where coroutine i is suspended
    sem,        \* asyncio.Semaphore._value
    pbar,       \* the progress counter (pbar.count / tqdm's n)
    attempt,    \* attempt[i]: the loop variable of `for attempt in range(max_retries)`, 0 outside the loop
    timer,      \* timer[i]: the delay coroutine i asked asyncio.sleep for, 0 once it has passed
    article,    \* article[i]: the record (dict) coroutine i works on
    result,     \* result[i]: what the task of coroutine i ended with
    gather,     \* the state of `await asyncio.gather(*tasks)`
    output,     \* the list the agent builds from the results
    saved,      \* whether the agent wrote its output artifact
    updates,    \* history: updates[i] = pbar.update(1) calls coroutine i has made
    resp,       \* history: resp[i] = how the last remote call of coroutine i ended
    last_done,  \* history (scraper, analyzer): the item whose coroutine returned a record most recently, 0 before any has
    src_date,   \* history: src_date[i] = the publication date the source that resolved record i supplied
    fetcher,    \* the state of fetcher_agent (fetcher.py) and of the filter pass over its output
    ranker      \* the state of ranker_agent (ranker.py) and of reporter_agent over its output

vars == <<stage, pc, sem, pbar, attempt, timer, article, result, gather, output,
          saved, updates, resp, last_done, src_date, fetcher, ranker>>

----------------------------------------------------------------------------
(* Bounds of the model *)

\* records in the batch
NumItems == 3

\* the semaphore's initial value; 10 in the source (scraper.py:30,
\* analyzer.py:39, ranker.py:37), scaled so that a batch exceeds it
CONCURRENT_REQUESTS == 2

\* REPORT_LIMIT, the "Top N" the ranker keeps; 10 in the source (ranker.py:38),
\* scaled with the batch
REPORT_LIMIT == 2

Items == 1..NumItems

Stages == {"scraper", "analyzer", "ranker"}

----------------------------------------------------------------------------
(* Program constants *)

\* max_retries = 3
max_retries == 3

\* asyncio.sleep((attempt + 2) * 2)
Delay(k) == (k + 2) * 2

\* MIN_ABSTRACT_LENGTH = 200
MIN_ABSTRACT_LENGTH == 200

----------------------------------------------------------------------------
(* The remote service, as the code sees it *)

\* client.post raised something that is neither HTTPStatusError nor JSONDecodeError
\* (httpx.ConnectError, httpx.ReadTimeout, ...)
TransportError == "transport_error"

\* response.raise_for_status() raised httpx.HTTPStatusError
StatusError == "status_error"

\* response.json() or json.loads(content) raised json.JSONDecodeError
BadJson == "bad_json"

\* the payload parsed, but the envelope or its content has the wrong shape
\* (KeyError / IndexError / TypeError ...)
BadShape == "bad_shape"

\* the content parsed to a JSON object that lacks a required key
MissingKey == "missing_key"

\* the content parsed to a JSON object with every required key
Ok == "ok"

AIResponses == {TransportError, StatusError, BadJson, BadShape, MissingKey, Ok}

\* mutant: every failure of a call is retried
CaughtForRetry_AnyError(r) == r \notin {Ok, MissingKey}

\* except (httpx.HTTPStatusError, json.JSONDecodeError)
CaughtForRetry(r) == r \in {StatusError, BadJson}

NoResp == "none"

----------------------------------------------------------------------------
(* The semaphore *)

\* mutant: acquire() never blocks
SemFree_Unbounded == TRUE

\* Semaphore.locked() is false: acquire() returns without blocking
SemFree == sem > 0

\* Waiters are served in FIFO order, and gather starts the tasks in input order
Admitted(i) == SemFree /\ \A j \in Items : j < i => pc[j] # "wait"

Inside(i) == pc[i] \in {"post", "sleep", "api", "scrape"}

----------------------------------------------------------------------------
(* analyzer.py *)

AnalyzerTitles == {"missing", "present"}

\* get_analysis_payload reads article['title']: KeyError when the key is absent
PayloadRaises(art) == art.title = "missing"

\* OFFICIAL_LABELS (three of its items, the sentinel among them)
OFFICIAL_LABELS == {"Aging", "Cancer", "Others"}

\* what the service sends under 'labels' ("Astrology" is not in the vocabulary;
\* nothing bounds the length of the list or keeps its items distinct)
LabelResponses ==
    {<<>>, <<"Astrology">>, <<"Cancer">>, <<"Cancer", "Astrology">>, <<"Cancer", "Others">>,
     <<"Cancer", "Aging", "Cancer", "Aging">>}

\* valid_labels: the labels of the official list, or ["Others"] when none is
ValidLabels(labels) ==
    LET valid_labels == SelectSeq(labels, LAMBDA L : L \in OFFICIAL_LABELS)
    IN  IF valid_labels = <<>> THEN <<"Others">> ELSE valid_labels

\* `async with semaphore: payload = get_analysis_payload(article)` and the first
\* client.post
analyze_article_start(i) ==
    /\ stage = "analyzer" /\ gather = "running"
    /\ pc[i] = "wait" /\ Admitted(i)
    /\ \E t \in AnalyzerTitles :
         LET art == [article[i] EXCEPT !.title = t] IN
         /\ article' = [article EXCEPT ![i] = art]
         /\ IF PayloadRaises(art)
              THEN \* the KeyError leaves the coroutine; __aexit__ releases the slot
                   /\ pc' = [pc EXCEPT ![i] = "done"]
                   /\ result' = [result EXCEPT ![i] = "raised"]
                   /\ UNCHANGED <<sem, attempt>>
              ELSE /\ pc' = [pc EXCEPT ![i] = "post"]
                   /\ sem' = sem - 1
                   /\ attempt' = [attempt EXCEPT ![i] = 0]
                   /\ UNCHANGED result
    /\ UNCHANGED <<stage, pbar, timer, gather, output, saved, updates, resp, last_done, src_date>>
    /\ UNCHANGED <<fetcher, ranker>>

\* mutant: the return does not release the slot
AnalyzeReturn_KeepsSlot(i, value) ==
    /\ pc' = [pc EXCEPT ![i] = "done"]
    /\ result' = [result EXCEPT ![i] = value]
    /\ pbar' = pbar + 1
    /\ updates' = [updates EXCEPT ![i] = @ + 1]
    /\ attempt' = [attempt EXCEPT ![i] = 0]
    /\ last_done' = (IF value = "article" THEN i ELSE last_done)
    /\ UNCHANGED <<sem, src_date, timer>>

\* pbar.update(1); return <value>  (leaving `async with` releases the slot)
AnalyzeReturn(i, value) ==
    /\ pc' = [pc EXCEPT ![i] = "done"]
    /\ result' = [result EXCEPT ![i] = value]
    /\ pbar' = pbar + 1
    /\ updates' = [updates EXCEPT ![i] = @ + 1]
    /\ sem' = sem + 1
    /\ attempt' = [attempt EXCEPT ![i] = 0]
    /\ last_done' = (IF value = "article" THEN i ELSE last_done)
    /\ UNCHANGED src_date
    /\ UNCHANGED timer

\* mutant: the loop has no bound
AnalyzeNextAttempt_Unbounded(i) ==
    /\ attempt' = [attempt EXCEPT ![i] = @ + 1]
    /\ pc' = [pc EXCEPT ![i] = "post"]
    /\ UNCHANGED <<result, pbar, updates, sem, timer, last_done, src_date>>

\* the next iteration of the for loop, or the code after it
AnalyzeNextAttempt(i) ==
    IF attempt[i] + 1 < max_retries
      THEN /\ attempt' = [attempt EXCEPT ![i] = @ + 1]
           /\ pc' = [pc EXCEPT ![i] = "post"]
           /\ UNCHANGED <<result, pbar, updates, sem, timer, last_done, src_date>>
      ELSE AnalyzeReturn(i, "None")

\* the await of client.post ends: the body of the try, or an except clause
analyze_article_response(i) ==
    /\ stage = "analyzer" /\ gather = "running"
    /\ pc[i] = "post"
    /\ \E r \in AIResponses :
         /\ resp' = [resp EXCEPT ![i] = r]
         /\ CASE r = Ok ->
                   /\ \E labels \in LabelResponses :
                        article' = [article EXCEPT ![i].labels = ValidLabels(labels)]
                   /\ AnalyzeReturn(i, "article")
              [] r = MissingKey ->
                   \* the `if` is false and nothing is raised: the loop goes on
                   /\ AnalyzeNextAttempt(i)
                   /\ UNCHANGED article
              [] CaughtForRetry(r) ->
                   /\ pc' = [pc EXCEPT ![i] = "sleep"]
                   /\ timer' = [timer EXCEPT ![i] = Delay(attempt[i])]
                   /\ UNCHANGED <<article, result, pbar, updates, sem, attempt, last_done, src_date>>
              [] OTHER ->
                   \* except Exception: pbar.update(1); return None
                   /\ AnalyzeReturn(i, "None")
                   /\ UNCHANGED article
    /\ UNCHANGED <<stage, gather, output, saved>>
    /\ UNCHANGED <<fetcher, ranker>>

\* the await of asyncio.sleep ends
analyze_article_wake(i) ==
    /\ stage = "analyzer" /\ gather = "running"
    /\ pc[i] = "sleep" /\ timer[i] = 0
    /\ AnalyzeNextAttempt(i)
    /\ UNCHANGED <<stage, article, gather, output, saved, resp>>
    /\ UNCHANGED <<fetcher, ranker>>

----------------------------------------------------------------------------
(* ranker.py *)

\* the journals of the records (the last one is not in JOURNAL_WEIGHTS)
Journals == {"Nature", "eLife"}

\* JOURNAL_WEIGHTS, a defaultdict; the weights in tenths (1.5 -> 15)
JOURNAL_WEIGHTS(j) ==
    CASE j \in {"Nature", "Science", "Cell", "The Lancet", "NEJM"} -> 15
      [] j \in {"Nature Medicine", "Nature Biotechnology", "Nature Genetics",
                "Nature Machine Intelligence", "Cancer Cell"} -> 12
      [] OTHER -> 10

get_journal_score(art) == JOURNAL_WEIGHTS(art.journal)

\* the values the service sends as relevance_score (the last one out of 1..10)
RelevanceScores == {10, 11}

RankerTitles == {"missing", "present"}

\* `async with semaphore: payload = get_relevance_payload(article, label)` and the
\* first client.post; the batch exists only for a label with more than
\* REPORT_LIMIT records
score_article_start(i) ==
    /\ stage = "ranker" /\ gather = "running"
    /\ NumItems > REPORT_LIMIT
    /\ pc[i] = "wait" /\ Admitted(i)
    /\ \E t \in RankerTitles :
         LET art == [article[i] EXCEPT !.title = t] IN
         /\ article' = [article EXCEPT ![i] = art]
         /\ IF PayloadRaises(art)
              THEN /\ pc' = [pc EXCEPT ![i] = "done"]
                   /\ result' = [result EXCEPT ![i] = "raised"]
                   /\ UNCHANGED <<sem, attempt>>
              ELSE /\ pc' = [pc EXCEPT ![i] = "post"]
                   /\ sem' = sem - 1
                   /\ attempt' = [attempt EXCEPT ![i] = 0]
                   /\ UNCHANGED result
    /\ UNCHANGED <<stage, pbar, timer, gather, output, saved, updates, resp, last_done, src_date>>
    /\ UNCHANGED <<fetcher, ranker>>

\* article['priority_score'] = ...; article['ai_relevance'] = ...; pbar.update(1);
\* return article, after `before` earlier pbar.update(1) calls of this step
ScoreReturn(i, j, relevance, priority, before) ==
    /\ article' = [article EXCEPT ![i].journal = j,
                                  ![i].priority_score = priority,
                                  ![i].ai_relevance = relevance]
    /\ pc' = [pc EXCEPT ![i] = "done"]
    /\ result' = [result EXCEPT ![i] = "article"]
    /\ pbar' = pbar + before + 1
    /\ updates' = [updates EXCEPT ![i] = @ + before + 1]
    /\ sem' = sem + 1
    /\ attempt' = [attempt EXCEPT ![i] = 0]
    /\ UNCHANGED <<timer, last_done, src_date>>

\* mutant: the fallback leaves the priority at the sort's default
ScoreFallback_NoPriority(i, j, before) == ScoreReturn(i, j, 0, 0, before)

\* "Fallback score if AI fails"; j is the record's journal
ScoreFallback(i, j, before) ==
    ScoreReturn(i, j, 0, get_journal_score([article[i] EXCEPT !.journal = j]), before)

\* ai_score = int(result_data.get('relevance_score', 1)) ... return article
ScoreSuccess(i, j, ai_score) ==
    ScoreReturn(i, j, ai_score,
                ai_score * get_journal_score([article[i] EXCEPT !.journal = j]), 0)

\* the await of client.post ends: the body of the try, or an except clause
score_article_response(i) ==
    /\ stage = "ranker" /\ gather = "running"
    /\ pc[i] = "post"
    /\ \E r \in AIResponses :
         /\ resp' = [resp EXCEPT ![i] = r]
         /\ CASE r = Ok ->
                   \E j \in Journals, v \in RelevanceScores : ScoreSuccess(i, j, v)
              [] r = MissingKey ->
                   \* result_data.get('relevance_score', 1)
                   \E j \in Journals : ScoreSuccess(i, j, 1)
              [] CaughtForRetry(r) ->
                   /\ pc' = [pc EXCEPT ![i] = "sleep"]
                   /\ timer' = [timer EXCEPT ![i] = Delay(attempt[i])]
                   /\ UNCHANGED <<article, result, pbar, updates, sem, attempt, last_done, src_date>>
              [] OTHER ->
                   \* except Exception: pbar.update(1); break -- then the fallback
                   \E j \in Journals : ScoreFallback(i, j, 1)
    /\ UNCHANGED <<stage, gather, output, saved>>
    /\ UNCHANGED <<fetcher, ranker>>

\* the await of asyncio.sleep ends: the next iteration, or the fallback
score_article_wake(i) ==
    /\ stage = "ranker" /\ gather = "running"
    /\ pc[i] = "sleep" /\ timer[i] = 0
    /\ IF attempt[i] + 1 < max_retries
         THEN /\ attempt' = [attempt EXCEPT ![i] = @ + 1]
              /\ pc' = [pc EXCEPT ![i] = "post"]
              /\ UNCHANGED <<article, result, pbar, updates, sem, timer, last_done, src_date>>
         ELSE \E j \in Journals : ScoreFallback(i, j, 0)
    /\ UNCHANGED <<stage, gather, output, saved, resp>>
    /\ UNCHANGED <<fetcher, ranker>>

\* mutant: x goes before the elements of equal key (the sort is not stable)
RECURSIVE InsertDesc_BeforeEquals(_, _, _)
InsertDesc_BeforeEquals(x, seq, key) ==
    IF seq = <<>> THEN <<x>>
    ELSE IF key[Head(seq)] > key[x]
           THEN <<Head(seq)>> \o InsertDesc_BeforeEquals(x, Tail(seq), key)
           ELSE <<x>> \o seq

\* list.insert keeping the order of sorted(..., reverse=True): x goes after every
\* element whose key is not smaller (the sort is stable)
RECURSIVE InsertDesc(_, _, _)
InsertDesc(x, seq, key) ==
    IF seq = <<>> THEN <<x>>
    ELSE IF key[Head(seq)] >= key[x]
           THEN <<Head(seq)>> \o InsertDesc(x, Tail(seq), key)
           ELSE <<x>> \o seq

\* sorted(seq, key=lambda x: key[x], reverse=True)
RECURSIVE SortedDesc(_, _)
SortedDesc(seq, key) ==
    IF seq = <<>> THEN <<>>
    ELSE InsertDesc(seq[Len(seq)], SortedDesc(SubSeq(seq, 1, Len(seq) - 1), key), key)

\* seq[:n]
Take(seq, n) == SubSeq(seq, 1, IF Len(seq) < n THEN Len(seq) ELSE n)

\* ranked_data[label] = sorted(results, key=priority_score, reverse=True)[:REPORT_LIMIT]
Ranked ==
    Take(SortedDesc([i \in Items |-> i], [i \in Items |-> article[i].priority_score]),
         REPORT_LIMIT)

----------------------------------------------------------------------------
(* scraper.py *)

ScraperTitles == {"missing", "A research result", "Author Correction: a result"}

Links == {"nature.com/articles/d41586-1", "science.org/doi/10.1126/1",
          "example.org/paper/1"}

\* the records of the stage-1 file, as far as the scraper reads them: those with at
\* most one of a missing or non-research title and a special link
ScraperRecords ==
    {r \in [title : ScraperTitles, link : Links] :
       r.title # "A research result" => r.link = "example.org/paper/1"}

\* re.search(r'(10\.\d{4,9}/[-._;()/:a-zA-Z0-9]+)', url)
extract_doi(url) ==
    IF url = "science.org/doi/10.1126/1" THEN "10.1126/1" ELSE "none"

\* `term in title` for some term of skip_terms (title lower-cased)
HasSkipTerm(title) == title \in {"Author Correction: a result"}

\* mutant: the filter lets every record through
is_likely_research_article_AcceptAll(art) == TRUE

\* is_likely_research_article(article)[0]
is_likely_research_article(art) ==
    LET link == art.link
        feed_url == art.feed_url
    IN  /\ link # "nature.com/articles/d41586-1"
        /\ link # "science.org/content/article/1"
        /\ feed_url # "science.org/rss/news_current.xml"
        /\ ~HasSkipTerm(art.title)

None == [source |-> "none", abstract |-> 0, authors |-> 0, date |-> "absent"]

\* what a source gives as publication date: nothing, a date without a zone (which
\* date_parse turns into a naive datetime), or text date_parse raises on
DateKinds == {"absent", "naive", "garbled"}

\* what client.get gives fetch_metadata_api: an exception (timeout, connection
\* error, undecodable body), a status other than 200, or a 200 with its fields
\* (abstract: its length, 0 when absent or empty; authors: their number)
\* of the 200 responses, those with at most one of: no abstract, no authors, a date
ApiResponses ==
    {[raised |-> TRUE, status |-> 0, abstract |-> 0, authors |-> 0, date |-> "absent"],
     [raised |-> FALSE, status |-> 500, abstract |-> 0, authors |-> 0, date |-> "absent"]}
    \cup {r \in [raised : {FALSE}, status : {200}, abstract : {0, 50}, authors : {0, 2},
                  date : DateKinds] :
            (r.abstract = 0 \/ r.authors = 0) => (r.abstract + r.authors > 0 /\ r.date = "absent")}

\* mutant: a 200 response is taken whether or not it carries an abstract
fetch_metadata_api_NoAbstractTest(r) ==
    IF r.raised \/ r.status # 200 THEN None
    ELSE [source |-> "API", abstract |-> r.abstract, authors |-> r.authors,
          date |-> IF r.date = "garbled" THEN "absent" ELSE r.date]

fetch_metadata_api(r) ==
    IF r.raised THEN None
    ELSE IF r.status = 200
           THEN IF r.abstract = 0 THEN None
                ELSE [source |-> "API", abstract |-> r.abstract, authors |-> r.authors,
                      date |-> IF r.date = "garbled" THEN "absent" ELSE r.date]
           ELSE None

\* what client.get gives fetch_metadata_scrape: an exception (also from
\* raise_for_status), or a page with its meta tags (nonresearch: the content of
\* its type tag contains a term of NON_RESEARCH_TYPES; abstract: the length of the
\* stripped abstract; authors: their number); of the pages, those with at most one
\* of: a non-research type, a short abstract, no authors, a date
PageResponses ==
    {[raised |-> TRUE, nonresearch |-> FALSE, abstract |-> 0, authors |-> 0,
      date |-> "absent"]}
    \cup {p \in [raised : {FALSE}, nonresearch : BOOLEAN,
                  abstract : {MIN_ABSTRACT_LENGTH - 1, MIN_ABSTRACT_LENGTH},
                  authors : {0, 2}, date : DateKinds] :
            LET defects == (IF p.nonresearch THEN 1 ELSE 0)
                           + (IF p.abstract < MIN_ABSTRACT_LENGTH THEN 1 ELSE 0)
                           + (IF p.authors = 0 THEN 1 ELSE 0)
                           + (IF p.date # "absent" THEN 1 ELSE 0)
            IN  defects <= 1}

\* mutant: the length gate is missing
fetch_metadata_scrape_NoLengthGate(p) ==
    IF p.raised \/ p.nonresearch \/ p.abstract = 0 \/ p.authors = 0 THEN None
    ELSE [source |-> "Scrape", abstract |-> p.abstract, authors |-> p.authors,
          date |-> IF p.date = "garbled" THEN "absent" ELSE p.date]

fetch_metadata_scrape(p) ==
    IF p.raised THEN None
    ELSE IF p.nonresearch THEN None
    ELSE IF p.abstract = 0 \/ p.abstract < MIN_ABSTRACT_LENGTH THEN None
    ELSE IF p.authors > 0
           THEN [source |-> "Scrape", abstract |-> p.abstract, authors |-> p.authors,
                 date |-> IF p.date = "garbled" THEN "absent" ELSE p.date]
           ELSE None

\* how a source call ended, for the history variable resp
ApiKind(r) ==
    IF r.raised \/ r.status # 200 THEN "api_transient"
    ELSE IF r.abstract = 0 THEN "api_invalid"
    ELSE "api_ok"

PageKind(p) ==
    IF p.raised THEN "page_transient"
    ELSE IF p.nonresearch THEN "page_nonresearch"
    ELSE IF p.abstract < MIN_ABSTRACT_LENGTH THEN "page_short"
    ELSE IF p.authors = 0 THEN "page_no_authors"
    ELSE "page_ok"

\* pbar.update(1); return None
ProcessReturnNone(i) ==
    /\ pc' = [pc EXCEPT ![i] = "done"]
    /\ result' = [result EXCEPT ![i] = "None"]
    /\ pbar' = pbar + 1
    /\ updates' = [updates EXCEPT ![i] = @ + 1]
    /\ UNCHANGED <<last_done, src_date>>

\* mutant: the date of the feed is kept whatever the source says
ProcessReturnArticle_KeepsFeedDate(i, metadata) ==
    /\ article' = [article EXCEPT
                     ![i].source = metadata.source,
                     ![i].abstract = metadata.abstract,
                     ![i].authors = metadata.authors]
    /\ pc' = [pc EXCEPT ![i] = "done"]
    /\ result' = [result EXCEPT ![i] = "article"]
    /\ pbar' = pbar + 1
    /\ updates' = [updates EXCEPT ![i] = @ + 1]
    /\ last_done' = i

\* "Step 3: Update Date & Return"
ProcessReturnArticle(i, metadata) ==
    /\ article' = [article EXCEPT
                     ![i].published = IF metadata.date = "absent" THEN @ ELSE "source_utc",
                     ![i].source = metadata.source,
                     ![i].abstract = metadata.abstract,
                     ![i].authors = metadata.authors]
    /\ pc' = [pc EXCEPT ![i] = "done"]
    /\ result' = [result EXCEPT ![i] = "article"]
    /\ pbar' = pbar + 1
    /\ updates' = [updates EXCEPT ![i] = @ + 1]
    /\ last_done' = i

\* `async with semaphore:` up to the first await: the filter, extract_doi and the
\* first source call
process_article_start(i) ==
    /\ stage = "scraper" /\ gather = "running"
    /\ pc[i] = "wait" /\ Admitted(i)
    /\ \E r \in ScraperRecords :
         LET t == r.title
             l == r.link
             \* scraper_agent: article['feed_url'] = article['link']
             art == [article[i] EXCEPT !.title = t, !.link = l, !.feed_url = l] IN
         IF t = "missing" \/ ~is_likely_research_article(art)
           THEN \* the KeyError is caught by `except Exception`; a rejected record
                \* returns at once: both end in pbar.update(1); return None
                /\ article' = [article EXCEPT ![i] = art]
                /\ ProcessReturnNone(i)
                /\ UNCHANGED sem
           ELSE /\ article' = [article EXCEPT ![i] = [art EXCEPT !.doi = extract_doi(l)]]
                /\ pc' = [pc EXCEPT ![i] = IF extract_doi(l) # "none" THEN "api" ELSE "scrape"]
                /\ sem' = sem - 1
                /\ UNCHANGED <<result, pbar, updates, last_done, src_date>>
    /\ UNCHANGED <<stage, attempt, timer, gather, output, saved, resp>>
    /\ UNCHANGED <<fetcher, ranker>>

\* the await of fetch_metadata_api ends
process_article_api(i) ==
    /\ stage = "scraper" /\ gather = "running"
    /\ pc[i] = "api"
    /\ \E r \in ApiResponses :
         LET metadata == fetch_metadata_api(r) IN
         /\ resp' = [resp EXCEPT ![i] = ApiKind(r)]
         /\ IF metadata # None
              THEN /\ ProcessReturnArticle(i, metadata)
                   /\ src_date' = [src_date EXCEPT ![i] = r.date]
                   /\ sem' = sem + 1
              ELSE /\ pc' = [pc EXCEPT ![i] = "scrape"]
                   /\ UNCHANGED <<article, result, pbar, updates, sem, last_done, src_date>>
    /\ UNCHANGED <<stage, attempt, timer, gather, output, saved>>
    /\ UNCHANGED <<fetcher, ranker>>

\* the await of fetch_metadata_scrape ends
process_article_scrape(i) ==
    /\ stage = "scraper" /\ gather = "running"
    /\ pc[i] = "scrape"
    /\ \E p \in PageResponses :
         LET metadata == fetch_metadata_scrape(p) IN
         /\ resp' = [resp EXCEPT ![i] = PageKind(p)]
         /\ IF metadata # None
              THEN /\ ProcessReturnArticle(i, metadata)
                   /\ src_date' = [src_date EXCEPT ![i] = p.date]
              ELSE ProcessReturnNone(i) /\ UNCHANGED article
         /\ sem' = sem + 1
    /\ UNCHANGED <<stage, attempt, timer, gather, output, saved>>
    /\ UNCHANGED <<fetcher, ranker>>

----------------------------------------------------------------------------
(* Time and the gather *)

\* the time coroutine i asked asyncio.sleep for has passed (the loop's timer fires)
sleep_elapsed(i) ==
    /\ gather = "running"
    /\ pc[i] = "sleep" /\ timer[i] > 0
    /\ timer' = [timer EXCEPT ![i] = 0]
    /\ UNCHANGED <<stage, pc, sem, pbar, attempt, article, result, gather, output,
                   saved, updates, resp, last_done, src_date>>
    /\ UNCHANGED <<fetcher, ranker>>

\* mutant: the results are not filtered
NotNone_Unfiltered == [i \in Items |-> i]

\* mutant: the results are collected as the tasks complete (the record returned
\* last comes last) instead of in the order of the tasks
NotNone_AsCompleted ==
    SelectSeq([i \in Items |-> i], LAMBDA i : result[i] = "article" /\ i # last_done)
    \o (IF last_done # 0 THEN <<last_done>> ELSE <<>>)

\* [res for res in results if res is not None]
NotNone == SelectSeq([i \in Items |-> i], LAMBDA i : result[i] = "article")

\* every task has returned: gather returns the results in input order and the
\* agent builds and saves its output
GatherReturn ==
    /\ gather = "running"
    /\ \A i \in Items : result[i] \in {"article", "None"}
    /\ gather' = "returned"
    /\ output' = IF stage = "ranker" THEN Ranked ELSE NotNone
    /\ saved' = (stage # "analyzer" \/ NotNone # <<>>)
    /\ UNCHANGED <<stage, pc, sem, pbar, attempt, timer, article, result,
                   updates, resp, last_done, src_date>>
    /\ UNCHANGED <<fetcher, ranker>>

\* a task has raised: gather (return_exceptions is False) raises in the agent,
\* nothing catches it, and asyncio.run cancels the tasks still pending
GatherRaise ==
    /\ gather = "running"
    /\ \E i \in Items : result[i] = "raised"
    /\ gather' = "raised"
    /\ pc' = [i \in Items |-> "done"]
    /\ result' = [i \in Items |-> IF pc[i] = "done" THEN result[i] ELSE "cancelled"]
    /\ sem' = sem + Cardinality({i \in Items : Inside(i)})
    /\ attempt' = [i \in Items |-> 0]
    /\ timer' = [i \in Items |-> 0]
    /\ UNCHANGED <<stage, pbar, article, output, saved, updates, resp, last_done, src_date>>
    /\ UNCHANGED <<fetcher, ranker>>

----------------------------------------------------------------------------

\* the records before their coroutine has read them
InitArticle(s) ==
    CASE s = "analyzer" -> [title |-> "unread", labels |-> <<>>]
      [] s = "ranker" -> [title |-> "unread", journal |-> "unread",
                          priority_score |-> 0, ai_relevance |-> -1]
      [] s = "scraper" -> [title |-> "unread", link |-> "unread", feed_url |-> "unread",
                           doi |-> "none",
                           published |-> "feed", source |-> "none", abstract |-> 0,
                           authors |-> 0]

Init ==
    /\ stage \in Stages
    /\ pc = [i \in Items |-> "wait"]
    /\ sem = CONCURRENT_REQUESTS
    /\ pbar = 0
    /\ attempt = [i \in Items |-> 0]
    /\ timer = [i \in Items |-> 0]
    /\ article = [i \in Items |-> InitArticle(stage)]
    /\ result = [i \in Items |-> "pending"]
    /\ gather = "running"
    /\ output = <<>>
    /\ saved = FALSE
    /\ updates = [i \in Items |-> 0]
    /\ resp = [i \in Items |-> NoResp]
    /\ last_done = 0
    /\ src_date = [i \in Items |-> "unresolved"]
    /\ fetcher = [phase |-> "idle"]
    /\ ranker = [phase |-> "idle"]

Next ==
    \/ \E i \in Items : analyze_article_start(i)
    \/ \E i \in Items : analyze_article_response(i)
    \/ \E i \in Items : analyze_article_wake(i)
    \/ \E i \in Items : score_article_start(i)
    \/ \E i \in Items : score_article_response(i)
    \/ \E i \in Items : score_article_wake(i)
    \/ \E i \in Items : process_article_start(i)
    \/ \E i \in Items : process_article_api(i)
    \/ \E i \in Items : process_article_scrape(i)
    \/ \E i \in Items : sleep_elapsed(i)
    \/ GatherReturn
    \/ GatherRaise

Spec == Init /\ [][Next]_vars

----------------------------------------------------------------------------
(* fetcher.py, and the filter pass of scraper_agent over its output *)

\* feed entries fetcher_agent reads in one run
MaxEntries == 3

\* the variables of the batches, which the fetcher leaves alone
pipeline == <<stage, pc, sem, pbar, attempt, timer, article, result, gather, output,
              saved, updates, resp, last_done, src_date>>

\* JOURNAL_FEEDS (two of its items, in the order of the dict)
JOURNAL_FEEDS ==
    << [name |-> "Science", url |-> "science.org/action/showFeed?type=etoc&jc=science"],
       [name |-> "Science (News)", url |-> "science.org/rss/news_current.xml"] >>

\* unique_feeds: for every url the first name it is listed under, in dict order
RECURSIVE UniqueFeedsFrom(_)
UniqueFeedsFrom(k) ==
    IF k > Len(JOURNAL_FEEDS) THEN <<>>
    ELSE (IF \A j \in 1..(k - 1) : JOURNAL_FEEDS[j].url # JOURNAL_FEEDS[k].url
            THEN <<JOURNAL_FEEDS[k]>> ELSE <<>>)
         \o UniqueFeedsFrom(k + 1)

unique_feeds == UniqueFeedsFrom(1)

\* instants are counted in hours from cutoff_date = now - timedelta(days=days)
cutoff_date == 0

\* None: the key is absent from the entry, or its value is None (a value that is
\* no instant of the model)
NoDate == -99

\* the local zone of the machine: hours east of UTC
TZOffsets == {-1, 0, 1}

\* entry.get('link', '') of the entries
EntryLinks == {"", "science.org/doi/10.1126/1", "science.org/content/article/1"}

\* the entries feedparser gives; published_parsed and updated_parsed are
\* struct_time values in UTC, here the instant they denote (an entry published
\* at the cutoff carries no updated_parsed)
FeedEntries ==
    {e \in [link : EntryLinks, published_parsed : {NoDate, -1, 0},
            updated_parsed : {NoDate, 1}] :
       e.published_parsed = 0 => e.updated_parsed = NoDate}

\* time.mktime(dt_tuple) reads the tuple as local time: for a zone tz hours east of
\* UTC the timestamp lies tz hours before the instant the UTC tuple denotes
mktime(dt_tuple, tz) == dt_tuple - tz

\* parse_pubdate(entry): datetime.fromtimestamp(time.mktime(dt_tuple), timezone.utc)
\* of the first of published_parsed, updated_parsed that is set
parse_pubdate(entry, tz) ==
    IF entry.published_parsed # NoDate THEN mktime(entry.published_parsed, tz)
    ELSE IF entry.updated_parsed # NoDate THEN mktime(entry.updated_parsed, tz)
    ELSE NoDate

\* pub_date_utc is not None and not (pub_date_utc < cutoff_date)
PassesDateFilter(pub_date_utc) ==
    /\ pub_date_utc # NoDate
    /\ ~(pub_date_utc < cutoff_date)

\* mutant: links are not remembered
IsDuplicate_NoSeenLinks(link, seen_links) == link = ""

\* mutant: no entry is taken for a duplicate
IsDuplicate_Never(link, seen_links) == FALSE

\* not link or link in seen_links
IsDuplicate(link, seen_links) == link = "" \/ link \in seen_links

\* the next feed of `for url, journal_name in unique_feeds.items()`: requests.get
\* succeeds, or raises and the loop continues with the feed after it
fetch_feed ==
    /\ fetcher.phase = "fetching"
    /\ fetcher.feed < Len(unique_feeds)
    /\ \E fetched \in BOOLEAN :
         fetcher' = [fetcher EXCEPT !.feed = @ + 1, !.open = fetched]
    /\ UNCHANGED <<pipeline, ranker>>

\* one round of `for entry in feed.entries`
fetch_entry ==
    /\ fetcher.phase = "fetching" /\ fetcher.open
    /\ Len(fetcher.log) < MaxEntries
    /\ \E entry \in FeedEntries :
         LET journal_name == unique_feeds[fetcher.feed].name
             pub_date_utc == parse_pubdate(entry, fetcher.tz)
             link == entry.link
             article_data == [journal |-> journal_name, title |-> "A research result",
                              link |-> link, published_iso |-> pub_date_utc]
             kept == PassesDateFilter(pub_date_utc) /\ ~IsDuplicate(link, fetcher.seen_links)
         IN  fetcher' = [fetcher EXCEPT
                           !.log = Append(@, [journal |-> journal_name, entry |-> entry]),
                           !.seen_links = IF kept THEN @ \cup {link} ELSE @,
                           !.articles = IF kept THEN Append(@, article_data) ELSE @]
    /\ UNCHANGED <<pipeline, ranker>>

\* after the last feed: "7. Save to File", unless there is nothing to save
fetcher_save ==
    /\ fetcher.phase = "fetching"
    /\ fetcher.feed = Len(unique_feeds)
    /\ fetcher' = [fetcher EXCEPT
                     !.open = FALSE,
                     !.phase = IF fetcher.articles = <<>> THEN "nothing" ELSE "saved"]
    /\ UNCHANGED <<pipeline, ranker>>

\* scraper_agent reads the file, sets article['feed_url'] = article['link'] and
\* process_article starts with the filter: here for the next record of the file
scraper_agent_filter ==
    /\ fetcher.phase = "saved"
    /\ Len(fetcher.verdicts) < Len(fetcher.articles)
    /\ LET raw == fetcher.articles[Len(fetcher.verdicts) + 1]
           art == [title |-> raw.title, link |-> raw.link, feed_url |-> raw.link]
       IN  fetcher' = [fetcher EXCEPT
                         !.verdicts = Append(@, is_likely_research_article(art))]
    /\ UNCHANGED <<pipeline, ranker>>

FetcherInit ==
    /\ stage = "fetcher"
    /\ pc = [i \in Items |-> "wait"]
    /\ sem = CONCURRENT_REQUESTS
    /\ pbar = 0
    /\ attempt = [i \in Items |-> 0]
    /\ timer = [i \in Items |-> 0]
    /\ article = [i \in Items |-> [title |-> "unread"]]
    /\ result = [i \in Items |-> "pending"]
    /\ gather = "not started"
    /\ output = <<>>
    /\ saved = FALSE
    /\ updates = [i \in Items |-> 0]
    /\ resp = [i \in Items |-> NoResp]
    /\ last_done = 0
    /\ src_date = [i \in Items |-> "unresolved"]
    /\ \E tz \in TZOffsets :
         fetcher = [phase |-> "fetching", tz |-> tz, feed |-> 0, open |-> FALSE,
                    seen_links |-> {}, articles |-> <<>>, log |-> <<>>, verdicts |-> <<>>]
    /\ ranker = [phase |-> "idle"]

FetcherNext ==
    \/ fetch_feed
    \/ fetch_entry
    \/ fetcher_save
    \/ scraper_agent_filter

FetcherSpec == FetcherInit /\ [][FetcherNext]_vars

----------------------------------------------------------------------------
(* ranker.py: ranker_agent over a stage-3 file; reporter.py: reporter_agent  *)
(* over the file it saved.  The records are objects of a heap: a list holds  *)
(* references, article.copy() makes a new object, and score_article and the  *)
(* skip rule write into the object they are handed.  The batch of a scored   *)
(* label is one step here; its coroutines are the "ranker" batch above.      *)

\* the labels lists of the stage-3 records: analyze_article stores any non-empty
\* list of vocabulary labels
RankerLabelLists ==
    {<<"Cancer">>, <<"Cancer", "Aging">>, <<"Cancer", "Cancer">>, <<"Cancer", "Others">>,
     <<"Others">>}

\* the journals of the stage-3 records: one of weight 1.5, one of weight 1.2, and
\* "", the key article.get("journal", "") reads for a record without a journal
\* (a key that is not listed, like the name of any other journal)
RankerJournals == {"Nature", "Nature Medicine", ""}

\* the journal and the labels of a stage-3 record: every labels list for the first
\* journal, the other journals with the plainest lists
RankerRecordKinds ==
    {<<j, ls>> \in RankerJournals \X RankerLabelLists :
        \/ j = "Nature"
        \/ j = "Nature Medicine" /\ ls = <<"Cancer">>
        \/ j = "" /\ ls \in {<<"Cancer">>, <<"Cancer", "Aging">>}}

\* record k of the stage-3 file; its link is unique in the file (it stands for the
\* k-th link) and it has no score yet
AnalyzedRecords(k) ==
    {[link |-> k, journal |-> kind[1], labels |-> kind[2],
      priority_score |-> 0, ai_relevance |-> -1] : kind \in RankerRecordKinds}

\* the dict JOURNAL_WEIGHTS is built from, in tenths
JournalTable ==
    ("Nature" :> 15) @@ ("Science" :> 15) @@ ("Cell" :> 15) @@ ("The Lancet" :> 15)
    @@ ("NEJM" :> 15) @@ ("Nature Medicine" :> 12) @@ ("Nature Biotechnology" :> 12)
    @@ ("Nature Genetics" :> 12) @@ ("Nature Machine Intelligence" :> 12)
    @@ ("Cancer Cell" :> 12)

\* lambda: 1.0, in tenths
default_factory == 10

\* mutant: a miss stores the default under every key
missing_Resets(table, key) ==
    [k \in DOMAIN table \cup {key} |-> default_factory]

\* defaultdict.__missing__: the key is stored with the default
missing(table, key) == (key :> default_factory) @@ table

\* the table after JOURNAL_WEIGHTS[key]
Looked(table, key) == IF key \in DOMAIN table THEN table ELSE missing(table, key)

\* get_journal_score(article) with the table as it is: JOURNAL_WEIGHTS[article.get("journal", "")]
journal_score(table, rec) == Looked(table, rec.journal)[rec.journal]

\* the table after get_journal_score was called for the objects ids, in this order
RECURSIVE LookedAll(_, _, _)
LookedAll(table, heap, ids) ==
    IF ids = <<>> THEN table
    ELSE LookedAll(Looked(table, heap[Head(ids)].journal), heap, Tail(ids))

\* "N/A (Skipped)"
NotApplicable == -2

\* mutant: the group is handed the record itself
CopyOf_Alias(heap, id) == id

\* article.copy(): a new object (the next free reference)
CopyOf(heap, id) == Len(heap) + 1

\* for label in article.get('labels', ['Others']):
\*     grouped_by_label[label].append(article.copy())
\* r is the agent's state, id the record; keys is the insertion order of the dict
RECURSIVE group_by_label(_, _, _)
group_by_label(r, id, labels) ==
    IF labels = <<>> THEN r
    ELSE LET label == Head(labels)
             copy == CopyOf(r.heap, id)
             seen == \E k \in 1..Len(r.keys) : r.keys[k] = label
         IN  group_by_label(
                [r EXCEPT !.heap = Append(@, r.heap[id]),
                          !.keys = IF seen THEN @ ELSE Append(@, label),
                          !.grouped_by_label[label] = Append(@, copy)],
                id, Tail(labels))

\* mutant: the sentinel label is treated like any other
IsOthers_Never(label) == FALSE

\* if label == "Others": continue
IsOthers(label) == label = "Others"

\* mutant: a group of exactly REPORT_LIMIT records is scored
SkipsScoring_Below(n) == n < REPORT_LIMIT

\* if len(label_articles) <= REPORT_LIMIT
SkipsScoring(n) == n <= REPORT_LIMIT

\* how the scoring of one record ends: the service's relevance_score, or for good
\* in failure
ScoreOutcomes == {[ok |-> FALSE, relevance_score |-> 1], [ok |-> TRUE, relevance_score |-> 10]}

\* the two keys score_article writes into the record: the scored ones, or the
\* fallback ones
score_article_result(table, rec, o) ==
    IF o.ok
      THEN [priority_score |-> o.relevance_score * journal_score(table, rec),
            ai_relevance |-> o.relevance_score]
      ELSE [priority_score |-> journal_score(table, rec), ai_relevance |-> 0]

\* the two keys the skip rule writes into the record
skip_result(table, rec) ==
    [priority_score |-> journal_score(table, rec), ai_relevance |-> NotApplicable]

\* the weight table when the p-th record of the group ids is given its scores: the
\* records before it have been looked up
TableAt(ids, p) == LookedAll(ranker.weights, ranker.heap, SubSeq(ids, 1, p - 1))

\* article['priority_score'] = ...; article['ai_relevance'] = ... for the objects
\* of a group, in the order of the group
RECURSIVE WriteScores(_, _, _)
WriteScores(heap, ids, values) ==
    IF ids = <<>> THEN heap
    ELSE WriteScores([heap EXCEPT ![Head(ids)].priority_score = Head(values).priority_score,
                                  ![Head(ids)].ai_relevance = Head(values).ai_relevance],
                     Tail(ids), Tail(values))

\* sorted(group, key=priority_score, reverse=True)[:REPORT_LIMIT], over references
RankedGroup(heap, ids) ==
    Take(SortedDesc(ids, [id \in 1..Len(heap) |-> heap[id].priority_score]), REPORT_LIMIT)

\* one iteration of `for article in articles`: the next record of the file is read
\* and a copy of it appended to the group of each of its labels
group_article ==
    /\ ranker.phase = "group"
    /\ \E rec \in AnalyzedRecords(ranker.read + 1) :
         LET id == Len(ranker.heap) + 1
             r  == group_by_label([ranker EXCEPT !.heap = Append(@, rec), !.read = @ + 1],
                                  id, rec.labels)
         IN  ranker' = [r EXCEPT !.phase = IF r.read = NumItems THEN "rank" ELSE "group"]
    /\ UNCHANGED <<pipeline, fetcher>>

\* the label the loop `for label, label_articles in grouped_by_label.items()` is at
RankerAtLabel ==
    /\ ranker.phase = "rank"
    /\ ranker.next <= Len(ranker.keys)

\* the iteration of the loop for "Others": continue
rank_label_others ==
    /\ RankerAtLabel
    /\ IsOthers(ranker.keys[ranker.next])
    /\ ranker' = [ranker EXCEPT !.next = @ + 1]
    /\ UNCHANGED <<pipeline, fetcher>>

\* ranked_data[label] = ranked_articles[:REPORT_LIMIT], after values have been
\* written into the objects of the group
RankLabel(label, values, tasks, outcomes) ==
    LET ids  == ranker.grouped_by_label[label]
        heap == WriteScores(ranker.heap, ids, values)
    IN  ranker' = [ranker EXCEPT !.heap = heap,
                                 !.weights = LookedAll(@, ranker.heap, ids),
                                 !.outcomes[label] = outcomes,
                                 !.ranked_keys = Append(@, label),
                                 !.ranked_data[label] = RankedGroup(heap, ids),
                                 !.tasks[label] = tasks,
                                 !.assigned[label] = values,
                                 !.next = @ + 1]

\* the iteration of the loop for a small group: the skip rule
rank_label_skip ==
    /\ RankerAtLabel
    /\ LET label == ranker.keys[ranker.next]
           ids   == ranker.grouped_by_label[label]
       IN  /\ ~IsOthers(label)
           /\ SkipsScoring(Len(ids))
           /\ RankLabel(label,
                        [p \in 1..Len(ids) |-> skip_result(TableAt(ids, p), ranker.heap[ids[p]])],
                        0, <<>>)
    /\ UNCHANGED <<pipeline, fetcher>>

\* the iteration of the loop for a large group: one score_article task per record,
\* gathered; t is the title the records of the group have, or one of them lacks
rank_label_score ==
    /\ RankerAtLabel
    /\ LET label == ranker.keys[ranker.next]
           ids   == ranker.grouped_by_label[label]
       IN  /\ ~IsOthers(label)
           /\ ~SkipsScoring(Len(ids))
           /\ \E t \in RankerTitles :
                IF PayloadRaises([title |-> t])
                  THEN \* gather raises out of ranker_agent: nothing is saved
                       ranker' = [ranker EXCEPT !.phase = "raised", !.tasks[label] = Len(ids)]
                  ELSE \E o \in [1..Len(ids) -> ScoreOutcomes] :
                          RankLabel(label,
                                    [p \in 1..Len(ids) |->
                                       score_article_result(TableAt(ids, p),
                                                            ranker.heap[ids[p]], o[p])],
                                    Len(ids), o)
    /\ UNCHANGED <<pipeline, fetcher>>

\* with open(output_path, 'w') ...: json.dump(ranked_data, f), whatever it holds
ranker_save ==
    /\ ranker.phase = "rank"
    /\ ranker.next > Len(ranker.keys)
    /\ ranker' = [ranker EXCEPT
                    !.phase = "saved",
                    !.file = [keys |-> ranker.ranked_keys,
                              data |-> [label \in OFFICIAL_LABELS |->
                                          [p \in 1..Len(ranker.ranked_data[label]) |->
                                             ranker.heap[ranker.ranked_data[label][p]]]]]]
    /\ UNCHANGED <<pipeline, fetcher>>

\* reporter_agent over the saved file: one report per label that is not "Others",
\* of the first REPORT_LIMIT records
reporter_agent ==
    /\ ranker.phase = "saved"
    /\ ranker' = [ranker EXCEPT
                    !.phase = "reported",
                    !.reports = SelectSeq(ranker.file.keys, LAMBDA label : ~IsOthers(label))]
    /\ UNCHANGED <<pipeline, fetcher>>

RankerInit ==
    /\ stage = "ranker_agent"
    /\ pc = [i \in Items |-> "wait"]
    /\ sem = CONCURRENT_REQUESTS
    /\ pbar = 0
    /\ attempt = [i \in Items |-> 0]
    /\ timer = [i \in Items |-> 0]
    /\ article = [i \in Items |-> [title |-> "unread"]]
    /\ result = [i \in Items |-> "pending"]
    /\ gather = "not started"
    /\ output = <<>>
    /\ saved = FALSE
    /\ updates = [i \in Items |-> 0]
    /\ resp = [i \in Items |-> NoResp]
    /\ last_done = 0
    /\ src_date = [i \in Items |-> "unresolved"]
    /\ fetcher = [phase |-> "idle"]
    /\ ranker = [phase |-> "group", read |-> 0, heap |-> <<>>, keys |-> <<>>,
                 grouped_by_label |-> [label \in OFFICIAL_LABELS |-> <<>>],
                 next |-> 1, ranked_keys |-> <<>>,
                 ranked_data |-> [label \in OFFICIAL_LABELS |-> <<>>],
                 tasks |-> [label \in OFFICIAL_LABELS |-> 0],
                 assigned |-> [label \in OFFICIAL_LABELS |-> <<>>],
                 outcomes |-> [label \in OFFICIAL_LABELS |-> <<>>],
                 weights |-> JournalTable,
                 file |-> [keys |-> <<>>, data |-> [label \in OFFICIAL_LABELS |-> <<>>]],
                 reports |-> <<>>]

RankerNext ==
    \/ group_article
    \/ rank_label_others
    \/ rank_label_skip
    \/ rank_label_score
    \/ ranker_save
    \/ reporter_agent

RankerSpec == RankerInit /\ [][RankerNext]_vars

----------------------------------------------------------------------------
(* What a step does, read off the state *)

\* the labels whose iteration of the ranker's loop has ended
RankedLabels == {ranker.keys[k] : k \in 1..(ranker.next - 1)}

\* the labels of the saved file
FileLabels == {ranker.file.keys[k] : k \in 1..Len(ranker.file.keys)}

\* the ranker has written its file
RankerSaved == ranker.phase \in {"saved", "reported"}

InsideSet == {i \in Items : Inside(i)}

InOutput(i) == \E k \in 1..Len(output) : output[k] = i

RetryStage == stage \in {"analyzer", "ranker"}

\* in this step coroutine i sends a remote call
IssuesCall(i) ==
    /\ pc'[i] \in {"post", "api", "scrape"}
    /\ pc[i] # pc'[i] \/ attempt'[i] # attempt[i]

\* in this step the await of client.post of coroutine i ends
Responded(i) ==
    /\ pc[i] = "post"
    /\ result'[i] # "cancelled"
    /\ pc'[i] # "post" \/ attempt'[i] # attempt[i]

\* in this step coroutine i starts another attempt of its call
ReAttempts(i) == pc'[i] = "post" /\ attempt'[i] = attempt[i] + 1

\* the feed a journal name stands for
FeedUrl(journal_name) ==
    LET k == CHOOSE k \in 1..Len(unique_feeds) : unique_feeds[k].name = journal_name
    IN  unique_feeds[k].url

\* the publication instant an entry states
TrueInstant(entry) ==
    IF entry.published_parsed # NoDate THEN entry.published_parsed
    ELSE entry.updated_parsed

\* the positions of the stage-1 records, and of the entries read so far, with a link
RecordsWith(link) == {k \in 1..Len(fetcher.articles) : fetcher.articles[k].link = link}

LogWith(link) == {k \in 1..Len(fetcher.log) : fetcher.log[k].entry.link = link}

\* the entries with a link that passed the date filter of the run
PassedWith(link) ==
    {k \in LogWith(link) :
       PassesDateFilter(parse_pubdate(fetcher.log[k].entry, fetcher.tz))}

Min(S) == CHOOSE m \in S : \A n \in S : m <= n

\* the two reductions, over a sub-sequence of the entries read so far given by its
\* positions S: the date window keeps the entries whose date, as the run parses it,
\* is not before the cutoff; dedup-by-link keeps the first entry of S for each link
\* (an entry without a link is no record)
DateWindow(S) ==
    {k \in S : LET pub == parse_pubdate(fetcher.log[k].entry, fetcher.tz)
               IN  pub # NoDate /\ pub >= cutoff_date}

DedupByLink(S) ==
    {k \in S : /\ fetcher.log[k].entry.link # ""
               /\ \A j \in S : j < k => fetcher.log[j].entry.link # fetcher.log[k].entry.link}

AllEntries == 1..Len(fetcher.log)

RealLinks == EntryLinks \ {""}

----------------------------------------------------------------------------
(* Claims *)

\* C1: in every stage, at any instant, at most CONCURRENT_REQUESTS items are inside
\* the semaphore-guarded section (a remote call or a backoff in progress).
C1_AtMostCapInside == Cardinality(InsideSet) <= CONCURRENT_REQUESTS

\* C1 witness: the cap is reached and a further item is kept waiting.
C1_CapReached ==
    /\ Cardinality(InsideSet) = CONCURRENT_REQUESTS
    /\ \E i \in Items : pc[i] = "wait"

\* C2: whatever happens to one item, the exception included that building the
\* request payload raises for a record without 'title', no failure leaves the
\* batch: gather never raises and no other item is kept from its own result.
C2_FailureStaysInItem ==
    /\ gather # "raised"
    /\ \A i \in Items : result[i] # "cancelled"

\* C3: on every outcome path on which an item returns (success, rejection,
\* exhausted retries, unexpected exception) the item has incremented the progress
\* counter exactly once, and when the batch has returned the counter equals the
\* number of items.
C3_ProgressOncePerItem ==
    /\ \A i \in Items : result[i] \in {"article", "None"} => updates[i] = 1
    /\ gather = "returned" => pbar = NumItems

\* C4: in analyze_article and score_article every remote call of an item is a new
\* attempt, the attempts number at most max_retries (3), and no call is sent once
\* a call has succeeded or has ended in an error that is not retried; a finished
\* item sends nothing.
C4_AtMostThreeCallsNoneAfterFatal ==
    [][\A i \in Items :
         /\ (RetryStage /\ IssuesCall(i)) =>
              /\ attempt'[i] = (IF pc[i] = "wait" THEN 0 ELSE attempt[i] + 1)
              /\ attempt'[i] < max_retries
              /\ resp'[i] \notin {Ok, TransportError, BadShape}
         /\ pc[i] = "done" => pc'[i] = "done"]_vars

\* C4 witness: one item has used its third attempt and ended in failure, another
\* has ended on a fatal error.
C4_ExhaustedAndFatal ==
    /\ stage = "analyzer"
    /\ \E i, j \in Items :
         /\ result[i] = "None" /\ resp[i] = StatusError
         /\ result[j] = "None" /\ resp[j] = BadShape

\* C5: in analyze_article and score_article a transport failure (connection error,
\* timeout) of attempt 1 or 2 is retryable: a backoff delay and a further attempt
\* follow it.
C5_TransportFailureRetried ==
    [][\A i \in Items :
         (RetryStage /\ Responded(i) /\ resp'[i] = TransportError
            /\ attempt[i] + 1 < max_retries)
         => pc'[i] = "sleep"]_vars

\* C6: in analyze_article and score_article every re-attempt starts out of a
\* backoff delay that has elapsed, and the delay asked for after attempt k is
\* (k + 1) * 2, whatever retryable outcome ended attempt k.
C6_BackoffBeforeEveryRetry ==
    [][\A i \in Items :
         /\ (RetryStage /\ ReAttempts(i)) => (pc[i] = "sleep" /\ timer[i] = 0)
         /\ (RetryStage /\ pc[i] = "post" /\ pc'[i] = "sleep")
              => timer'[i] = ((attempt[i] + 1) + 1) * 2]_vars

\* C7: a parsed response that lacks a required key is never accepted as a success:
\* the attempt counts as failed and is retried, and after the last attempt the
\* item ends in the failure outcome (None in the analyzer, the fallback with
\* ai_relevance 0 in the ranker).
C7_MissingKeyNeverAccepted ==
    [][\A i \in Items :
         (RetryStage /\ Responded(i) /\ resp'[i] = MissingKey) =>
           IF attempt[i] + 1 < max_retries
             THEN pc'[i] \in {"post", "sleep"}
             ELSE IF stage = "analyzer"
                    THEN result'[i] = "None"
                    ELSE article'[i].ai_relevance = 0]_vars

\* C8: in the enrichment stage a source call that fails transiently is tried again
\* (the record is resolved by the attempt that succeeds): after a transient
\* failure the same source is called once more for the record.
C8_TransientFailureRetried ==
    [][\A i \in Items :
         /\ (stage = "scraper" /\ pc[i] = "api" /\ resp'[i] = "api_transient")
              => pc'[i] = "api"
         /\ (stage = "scraper" /\ pc[i] = "scrape" /\ resp'[i] = "page_transient")
              => pc'[i] = "scrape"]_vars

\* C9: in the enrichment stage the batch never raises, and when it has returned a
\* record is in the stage-2 output exactly if one of its sources resolved it: a
\* record whose sources all failed is absent, every resolved record is present.
C9_UnresolvedAbsentOthersPresent ==
    stage = "scraper" =>
      /\ gather # "raised"
      /\ \A i \in Items : result[i] \notin {"raised", "cancelled"}
      /\ gather = "returned" =>
           \A i \in Items : InOutput(i) <=> resp[i] \in {"api_ok", "page_ok"}

\* C9 witness: the batch has returned; a record with a DOI whose lookup and page
\* both failed is absent and another record is present.
C9_DroppedBesideKept ==
    /\ stage = "scraper" /\ gather = "returned"
    /\ \E i, j \in Items :
         /\ article[i].doi # "none"
         /\ resp[i] \in {"page_transient", "page_nonresearch", "page_short",
                        "page_no_authors"}
         /\ ~InOutput(i)
         /\ InOutput(j)

\* C10: a batch of the analyzer or the scraper runs to completion: when nothing
\* can run any more, gather has returned, every item has ended in success or
\* failure, and the output is built only once all items have finished.
C10_BatchRunsToCompletion ==
    stage \in {"analyzer", "scraper"} =>
      /\ ~ENABLED Next =>
           /\ gather = "returned"
           /\ \A i \in Items : result[i] \in {"article", "None"}
      /\ (output # <<>> \/ saved) => \A i \in Items : pc[i] = "done"

\* C11: whatever order the items complete in, the results are in input order: the
\* scraper and analyzer outputs hold exactly the records that were returned, in
\* the relative order of the input, and the ranker's (stable) sort is handed the
\* scored records in input order, so records of equal priority keep that order.
C11_OutputInInputOrder ==
    gather = "returned" =>
      /\ \A k, l \in 1..Len(output) : k < l =>
            IF stage = "ranker"
              THEN \/ article[output[k]].priority_score > article[output[l]].priority_score
                   \/ /\ article[output[k]].priority_score = article[output[l]].priority_score
                      /\ output[k] < output[l]
              ELSE output[k] < output[l]
      /\ stage # "ranker" =>
            {output[k] : k \in 1..Len(output)} = {i \in Items : result[i] = "article"}

\* C11 witness: the batch has returned and the first record of the output was the
\* last one to be returned by its coroutine.
C11_FirstInOutputReturnedLast ==
    /\ gather = "returned" /\ stage \in {"scraper", "analyzer"}
    /\ Len(output) >= 2
    /\ output[1] = last_done

\* C12: in process_article the fallback chain short-circuits: the identifier lookup
\* is sent only for a record with a DOI; the page fetch is sent exactly when there
\* is no DOI or the lookup gave no valid result (it failed, or its response has no
\* abstract); when the lookup succeeds the record is returned at once, with source
\* "API" and without a page fetch.
C12_FallbackChainShortCircuits ==
    [][\A i \in Items : stage = "scraper" =>
         /\ (pc[i] # "api" /\ pc'[i] = "api") =>
               (pc[i] = "wait" /\ article'[i].doi # "none")
         /\ (pc[i] # "scrape" /\ pc'[i] = "scrape") =>
               \/ pc[i] = "wait" /\ article'[i].doi = "none"
               \/ pc[i] = "api" /\ resp'[i] \in {"api_transient", "api_invalid"}
         /\ (pc[i] = "api" /\ pc'[i] # "api") =>
               IF resp'[i] = "api_ok"
                 THEN /\ pc'[i] = "done" /\ result'[i] = "article"
                      /\ article'[i].source = "API"
                 ELSE pc'[i] = "scrape"]_vars

\* C12 witness: one record was resolved by the lookup, another went to the page
\* after its lookup gave a response without abstract, a third had no DOI.
C12_LookupThenPage ==
    /\ stage = "scraper"
    /\ \E i, j, k \in Items :
         /\ result[i] = "article" /\ article[i].source = "API" /\ resp[i] = "api_ok"
         /\ pc[j] = "scrape" /\ resp[j] = "api_invalid"
         /\ article[k].doi = "none" /\ resp[k] = "page_ok"

\* C13: a record that passed the research filter is dropped only if neither source
\* yields a valid abstract: when the batch has returned, every record whose page
\* passed the type gate with an abstract of at least 200 characters is in the
\* stage-2 output, also when the page lists no authors.
C13_ValidAbstractKept ==
    (stage = "scraper" /\ gather = "returned") =>
      \A i \in Items :
         resp[i] \in {"api_ok", "page_ok", "page_no_authors"} => InOutput(i)

\* C14: every record the scraper returns has a non-empty abstract; a record whose
\* source is "Scrape" comes from a page that passed the type gate and has an
\* abstract of at least MIN_ABSTRACT_LENGTH characters; a page with a non-research
\* type or with an abstract one character short yields no record.
C14_AbstractGates ==
    stage = "scraper" =>
      \A i \in Items :
         /\ result[i] = "article" =>
               /\ article[i].abstract > 0
               /\ article[i].source = "Scrape" =>
                     /\ article[i].abstract >= MIN_ABSTRACT_LENGTH
                     /\ resp[i] = "page_ok"
         /\ resp[i] \in {"page_nonresearch", "page_short"} =>
               (result[i] = "None" /\ ~InOutput(i))

\* C14 witness: the output holds a record scraped from a page whose abstract has
\* exactly MIN_ABSTRACT_LENGTH characters, a page with one character less was
\* rejected, and so was a page of a non-research type.
C14_BoundaryAccepted ==
    /\ stage = "scraper" /\ gather = "returned"
    /\ \E i, j, k \in Items :
         /\ InOutput(i) /\ article[i].source = "Scrape"
         /\ article[i].abstract = MIN_ABSTRACT_LENGTH
         /\ resp[j] = "page_short" /\ ~InOutput(j)
         /\ resp[k] = "page_nonresearch" /\ ~InOutput(k)

\* C15: for every record the scraper returns: if the resolving source supplied a
\* parseable date (one without zone is taken as UTC) the record's published date is
\* that date, and nothing compares it with the date window; if it supplied no date
\* or one that does not parse, the published date is the one of the stage-1 input.
C15_DateOverride ==
    stage = "scraper" =>
      \A i \in Items :
         result[i] = "article" =>
           /\ src_date[i] \in DateKinds
           /\ src_date[i] = "naive" => article[i].published = "source_utc"
           /\ src_date[i] \in {"absent", "garbled"} => article[i].published = "feed"

\* C15 witness: the output holds a record dated by its source, one whose source
\* sent a date that does not parse, and one whose source sent none.
C15_DatedAndUndated ==
    /\ stage = "scraper" /\ gather = "returned"
    /\ \E i, j, k \in Items :
         /\ InOutput(i) /\ src_date[i] = "naive" /\ article[i].published = "source_utc"
         /\ InOutput(j) /\ src_date[j] = "garbled"
         /\ InOutput(k) /\ src_date[k] = "absent"

\* C16: the research filter runs before any remote call: a record with a Nature
\* news link or a non-research title ends at once with None, no lookup and no page
\* fetch is ever sent for it, and it is not in the stage-2 output.
C16_RejectedBeforeAnyCall ==
    stage = "scraper" =>
      \A i \in Items :
         (article[i].link = "nature.com/articles/d41586-1" \/ HasSkipTerm(article[i].title)) =>
           /\ pc[i] = "done" /\ result[i] = "None"
           /\ resp[i] = NoResp
           /\ ~InOutput(i)

\* C16 witness: the batch has returned; a record was rejected for its link, one for
\* its title, and a third is in the output.
C16_RejectedBesideKept ==
    /\ stage = "scraper" /\ gather = "returned"
    /\ \E i, j, k \in Items :
         /\ article[i].link = "nature.com/articles/d41586-1" /\ resp[i] = NoResp
         /\ HasSkipTerm(article[j].title) /\ resp[j] = NoResp
         /\ InOutput(k)

\* C17: the research filter, as the scraper stage invokes it, rejects every record
\* that came from the Science news feed (science.org/rss/news_current.xml),
\* whatever its link and title.
C17_NewsFeedRejected ==
    stage = "fetcher" =>
      \A k \in 1..Len(fetcher.verdicts) :
         FeedUrl(fetcher.articles[k].journal) = "science.org/rss/news_current.xml"
           => ~fetcher.verdicts[k]

\* C18 (as stated): the stage-1 output has no two records with the same link and
\* none with an empty link, and when several entries share a link exactly one
\* record is kept for it, naming the journal of the entry encountered first.
C18_FirstEncounteredWins ==
    stage = "fetcher" =>
      /\ RecordsWith("") = {}
      /\ \A link \in RealLinks :
           /\ Cardinality(RecordsWith(link)) <= 1
           /\ Cardinality(LogWith(link)) >= 2 =>
                 /\ Cardinality(RecordsWith(link)) = 1
                 /\ \A k \in RecordsWith(link) :
                       fetcher.articles[k].journal = fetcher.log[Min(LogWith(link))].journal

\* C18 (amended): the stage-1 output has no two records with the same link and
\* none with an empty link; a link has a record exactly if an entry carrying it
\* passed the date filter, and the record names the journal of the first entry
\* that did: entries the date filter drops do not take part in deduplication.
C18_FirstPassingEntryWins ==
    stage = "fetcher" =>
      /\ RecordsWith("") = {}
      /\ \A link \in RealLinks :
           IF PassedWith(link) = {}
             THEN RecordsWith(link) = {}
             ELSE /\ Cardinality(RecordsWith(link)) = 1
                  /\ \A k \in RecordsWith(link) :
                        fetcher.articles[k].journal = fetcher.log[Min(PassedWith(link))].journal

\* C18 witness: a link came in from both feeds and passed the date filter both
\* times; the file is saved with its one record.
C18_SharedLinkKeptOnce ==
    /\ stage = "fetcher" /\ fetcher.phase = "saved"
    /\ \E link \in RealLinks :
         /\ \E j, k \in PassedWith(link) : fetcher.log[j].journal # fetcher.log[k].journal
         /\ Cardinality(RecordsWith(link)) = 1

\* C19: a feed entry is in the stage-1 output only if it states a publication
\* instant that is not before the cutoff (entries older than the cutoff and entries
\* without a date are absent), and an entry published exactly at the cutoff, with
\* a link, is kept.
C19_DateWindowInclusive ==
    stage = "fetcher" =>
      /\ \A k \in 1..Len(fetcher.articles) :
           \E j \in LogWith(fetcher.articles[k].link) :
              /\ fetcher.log[j].journal = fetcher.articles[k].journal
              /\ TrueInstant(fetcher.log[j].entry) # NoDate
              /\ TrueInstant(fetcher.log[j].entry) >= cutoff_date
      /\ \A link \in RealLinks :
           (\E j \in LogWith(link) : TrueInstant(fetcher.log[j].entry) = cutoff_date)
             => RecordsWith(link) # {}

\* C20: every record the analyzer returns has a non-empty labels list of
\* vocabulary labels in which "Others" occurs only as the sole label, whatever
\* labels the classification service sent.
C20_LabelsWellFormed ==
    stage = "analyzer" =>
      \A i \in Items :
         result[i] = "article" =>
           LET labels == article[i].labels IN
           /\ labels # <<>>
           /\ \A k \in 1..Len(labels) : labels[k] \in OFFICIAL_LABELS
           /\ (\E k \in 1..Len(labels) : labels[k] = "Others") => labels = <<"Others">>

\* C21: every record the analyzer returns carries between one and three labels and
\* no label twice, whatever list the classification service sent (a list of more
\* than three labels or one with repeats included).
C21_OneToThreeDistinctLabels ==
    stage = "analyzer" =>
      \A i \in Items :
         result[i] = "article" =>
           LET labels == article[i].labels IN
           /\ Len(labels) \in 1..3
           /\ \A k, l \in 1..Len(labels) : labels[k] = labels[l] => k = l

\* the service's answer to the last call of item i was a failure of the call
ScoringFailed(i) == resp[i] \in {TransportError, StatusError, BadJson, BadShape}

\* C23 (as stated): for a label with more than REPORT_LIMIT records the scoring
\* calls sent to the relevance service number exactly the records of the group,
\* one per record: a record's only call is the one its task starts with, every
\* record of a batch that returned has sent one, and at most CONCURRENT_REQUESTS
\* are in flight.
C23_OneCallPerRecord ==
    [][stage = "ranker" =>
         /\ \A i \in Items : IssuesCall(i) => pc[i] = "wait"
         /\ gather' = "returned" => \A i \in Items : resp'[i] # NoResp
         /\ Cardinality({i \in Items : Inside(i)}) <= CONCURRENT_REQUESTS]_vars

\* C23 (amended): for a label with more than REPORT_LIMIT records one scoring task
\* runs per record and a finished task sends nothing more; every record of a batch
\* that returned has sent at least one call; a task sends a further call only
\* after its previous call ended in a non-2xx status or an unparseable content,
\* and at most max_retries (3) calls in all; at most CONCURRENT_REQUESTS tasks are
\* in flight.
C23_OneTaskPerRecordCallsRetried ==
    [][stage = "ranker" =>
         /\ \A i \in Items :
              /\ IssuesCall(i) =>
                   \/ pc[i] = "wait" /\ attempt'[i] = 0
                   \/ /\ pc[i] = "sleep" /\ resp[i] \in {StatusError, BadJson}
                      /\ attempt'[i] = attempt[i] + 1 /\ attempt'[i] < max_retries
              /\ pc[i] = "done" => pc'[i] = "done"
         /\ gather' = "returned" => \A i \in Items : resp'[i] # NoResp
         /\ Cardinality({i \in Items : Inside(i)'}) <= CONCURRENT_REQUESTS]_vars

\* C23 witness: a record's third call is in flight while another record has been
\* scored by its call.
C23_ThirdCallInFlight ==
    /\ stage = "ranker"
    /\ \E i, j \in Items :
         /\ pc[i] = "post" /\ attempt[i] = max_retries - 1
         /\ result[j] = "article" /\ resp[j] = Ok

C26_FailedScoringFallsBack ==
    stage = "ranker" =>
      \A i \in Items :
         /\ result[i] = "article" => article[i].priority_score # 0
         /\ (pc[i] = "done" /\ result[i] \notin {"raised", "cancelled"} /\ ScoringFailed(i)) =>
               /\ result[i] = "article"
               /\ article[i].ai_relevance = 0
               /\ article[i].priority_score = JOURNAL_WEIGHTS(article[i].journal)
               /\ gather = "returned" =>
                    \/ InOutput(i)
                    \/ /\ Len(output) = REPORT_LIMIT
                       /\ \A k \in 1..Len(output) :
                            article[output[k]].priority_score >= article[i].priority_score

\* C26 witness: the emitted list holds a record whose retries were used up, next to
\* a scored one, and a record that failed on a fatal error was returned.
C26_FallbackRecordEmitted ==
    /\ stage = "ranker" /\ gather = "returned"
    /\ \E i, j, l \in Items :
         /\ resp[i] = StatusError /\ InOutput(i) /\ article[i].ai_relevance = 0
         /\ resp[j] = Ok /\ InOutput(j)
         /\ resp[l] = TransportError /\ result[l] = "article"

\* C28: every record the ranker returns from a scored group has an integer
\* ai_relevance in 1..10, or the failure marker 0, whatever value the service sent
\* as relevance_score (integers outside 1..10 included).
C28_RelevanceInRange ==
    stage = "ranker" =>
      \A i \in Items :
         result[i] = "article" => article[i].ai_relevance \in 0..10

\* C29: a stage run in which no record survives writes no output artifact (scraper:
\* no record resolved; analyzer: no record classified).
C29_NoArtifactWhenNothingSurvives ==
    (stage \in {"scraper", "analyzer"} /\ gather = "returned" /\ output = <<>>) => ~saved

\* C22: for every label other than "Others" whose group has REPORT_LIMIT or fewer
\* records the ranker creates no scoring task, and every record of the group, in
\* the group and in the saved file, has priority_score equal to its journal weight
\* and the not-applicable marker as ai_relevance.
C22_SmallGroupSkipsScoring ==
    ranker.phase # "idle" =>
      \A label \in RankedLabels :
         LET ids == ranker.grouped_by_label[label] IN
         (label # "Others" /\ Len(ids) <= REPORT_LIMIT) =>
           /\ ranker.tasks[label] = 0
           /\ \A p \in 1..Len(ids) :
                /\ ranker.heap[ids[p]].priority_score
                     = JOURNAL_WEIGHTS(ranker.heap[ids[p]].journal)
                /\ ranker.heap[ids[p]].ai_relevance = NotApplicable
           /\ RankerSaved =>
                /\ label \in FileLabels
                /\ Len(ranker.file.data[label]) = Len(ids)
                /\ \A k \in 1..Len(ranker.file.data[label]) :
                     LET rec == ranker.file.data[label][k] IN
                     /\ rec.priority_score = JOURNAL_WEIGHTS(rec.journal)
                     /\ rec.ai_relevance = NotApplicable

\* C22 witness: the file holds a label whose group of exactly REPORT_LIMIT records
\* was not scored, next to a label that was.
C22_BoundaryGroupSkipped ==
    /\ RankerSaved
    /\ \E l, m \in FileLabels :
         /\ Len(ranker.grouped_by_label[l]) = REPORT_LIMIT /\ ranker.tasks[l] = 0
         /\ ranker.tasks[m] > REPORT_LIMIT

\* C25: "Others" is never a key of the ranker's output and no scoring task is
\* created for its group, whatever the size of the group, and the reporter writes
\* no report for it.
C25_OthersNeverRanked ==
    ranker.phase # "idle" =>
      /\ ranker.tasks["Others"] = 0
      /\ ranker.ranked_data["Others"] = <<>>
      /\ \A k \in 1..Len(ranker.ranked_keys) : ranker.ranked_keys[k] # "Others"
      /\ "Others" \notin FileLabels
      /\ \A k \in 1..Len(ranker.reports) : ranker.reports[k] # "Others"

\* C25 witness: the reporter has run over a file of a run whose "Others" group had
\* more than REPORT_LIMIT records, and has written a report for another label.
C25_LargeOthersGroupSkipped ==
    /\ ranker.phase = "reported"
    /\ Len(ranker.grouped_by_label["Others"]) > REPORT_LIMIT
    /\ ranker.reports # <<>>

\* C27: every entry of every group is an object of its own (a record with several
\* labels is in each of their groups as a separate copy), and the scores the
\* iteration of a label wrote into the records of its group stay as written while
\* the other groups are processed, up to the saved file.
C27_GroupsHoldOwnCopies ==
    ranker.phase # "idle" =>
      /\ \A l, m \in OFFICIAL_LABELS :
           \A p \in 1..Len(ranker.grouped_by_label[l]), q \in 1..Len(ranker.grouped_by_label[m]) :
              ranker.grouped_by_label[l][p] = ranker.grouped_by_label[m][q]
                => (l = m /\ p = q)
      /\ \A l \in RankedLabels : l # "Others" =>
           LET ids == ranker.grouped_by_label[l] IN
           /\ \A p \in 1..Len(ids) :
                /\ ranker.heap[ids[p]].priority_score = ranker.assigned[l][p].priority_score
                /\ ranker.heap[ids[p]].ai_relevance = ranker.assigned[l][p].ai_relevance
           /\ RankerSaved =>
                \A k \in 1..Len(ranker.file.data[l]) :
                   LET rec == ranker.file.data[l][k] IN
                   \E p \in 1..Len(ids) :
                      /\ ranker.heap[ids[p]].link = rec.link
                      /\ rec.priority_score = ranker.assigned[l][p].priority_score
                      /\ rec.ai_relevance = ranker.assigned[l][p].ai_relevance

\* C27 witness: the saved file holds a record under two labels, scored under the
\* first and skipped under the second.
C27_OneRecordTwoScores ==
    /\ RankerSaved
    /\ \E l, m \in FileLabels :
         \E k \in 1..Len(ranker.file.data[l]), n \in 1..Len(ranker.file.data[m]) :
            /\ ranker.file.data[l][k].link = ranker.file.data[m][n].link
            /\ ranker.file.data[l][k].ai_relevance = 10
            /\ ranker.file.data[m][n].ai_relevance = NotApplicable

\* C30: the links of the stage-3 file being unique, every per-label list of the
\* ranker's file holds each link at most once, whatever labels the records carry.
C30_LinkOncePerLabel ==
    RankerSaved =>
      \A l \in FileLabels :
         \A k, n \in 1..Len(ranker.file.data[l]) :
            ranker.file.data[l][k].link = ranker.file.data[l][n].link => k = n

\* C31: when the scoring of a record succeeds with relevance r, the record gets
\* priority_score r * w and ai_relevance r, w being the journal's weight of the
\* fixed table (1.5 or 1.2) or 1.0 for a journal that is not listed or missing; the
\* weight table keeps the weight of every listed journal and holds 1.0 under every
\* other key that was looked up, however often.
C31_PriorityIsRelevanceTimesWeight ==
    ranker.phase # "idle" =>
      /\ \A l \in RankedLabels :
           LET ids == ranker.grouped_by_label[l] IN
           ranker.tasks[l] > 0 =>
             \A p \in 1..Len(ids) :
                LET rec == ranker.heap[ids[p]]
                    r   == ranker.outcomes[l][p].relevance_score
                    w   == CASE rec.journal = "Nature" -> 15
                             [] rec.journal = "Nature Medicine" -> 12
                             [] OTHER -> 10
                IN  ranker.outcomes[l][p].ok =>
                      /\ rec.priority_score = r * w
                      /\ rec.ai_relevance = r
      /\ \A j \in DOMAIN ranker.weights :
           ranker.weights[j] = (IF j \in DOMAIN JournalTable THEN JournalTable[j] ELSE 10)
      /\ DOMAIN JournalTable \subseteq DOMAIN ranker.weights

\* C31 witness: in one scored group two records without a journal were scored, one
\* after the other, and after them a record of a journal of weight 1.2.
C31_UnlistedLookedUpTwice ==
    /\ RankerSaved
    /\ \E l \in RankedLabels :
         LET ids == ranker.grouped_by_label[l] IN
         \E p, q, n \in 1..Len(ids) :
            /\ p < q /\ q < n
            /\ ranker.heap[ids[p]].journal = "" /\ ranker.outcomes[l][p].ok
            /\ ranker.heap[ids[q]].journal = "" /\ ranker.outcomes[l][q].ok
            /\ ranker.heap[ids[n]].journal = "Nature Medicine" /\ ranker.outcomes[l][n].ok
            /\ ranker.heap[ids[n]].priority_score = 120

\* C32 (as stated): the date window and dedup-by-link commute and are idempotent:
\* over the entries read, window-then-dedup keeps the same entries as
\* dedup-then-window, these are the records of the output, and re-applying either
\* reduction to the output changes nothing.
C32_ReductionsCommute ==
    stage = "fetcher" =>
      LET out == DedupByLink(DateWindow(AllEntries)) IN
      /\ out = DateWindow(DedupByLink(AllEntries))
      /\ Len(fetcher.articles) = Cardinality(out)
      /\ DateWindow(out) = out /\ DedupByLink(out) = out

\* C32 (amended): the output is the date window followed by dedup-by-link: its
\* records are, in order, the first entries of their links among the entries inside
\* the window; each reduction is idempotent and re-applying either to the output
\* changes nothing; dedup-then-window keeps a part of what window-then-dedup keeps,
\* and the same entries when no link's first entry is outside the window while a
\* later entry of the link is inside.
C32_WindowThenDedup ==
    stage = "fetcher" =>
      LET out == DedupByLink(DateWindow(AllEntries)) IN
      /\ Len(fetcher.articles) = Cardinality(out)
      /\ \A k \in 1..Len(fetcher.articles) :
           \E j \in out :
              /\ Cardinality({i \in out : i < j}) = k - 1
              /\ fetcher.articles[k].link = fetcher.log[j].entry.link
              /\ fetcher.articles[k].journal = fetcher.log[j].journal
      /\ DateWindow(DateWindow(AllEntries)) = DateWindow(AllEntries)
      /\ DedupByLink(DedupByLink(AllEntries)) = DedupByLink(AllEntries)
      /\ DateWindow(out) = out /\ DedupByLink(out) = out
      /\ DateWindow(DedupByLink(AllEntries)) \subseteq out
      /\ (\A link \in RealLinks :
            PassedWith(link) # {} => Min(LogWith(link)) \in PassedWith(link))
           => DateWindow(DedupByLink(AllEntries)) = out

\* C32 witness: the saved file holds the record of a link whose first entry was
\* outside the date window and whose later entry was inside.
C32_LaterEntryOfLinkKept ==
    /\ stage = "fetcher" /\ fetcher.phase = "saved"
    /\ \E link \in RealLinks :
         /\ PassedWith(link) # {}
         /\ Min(LogWith(link)) \notin PassedWith(link)
         /\ RecordsWith(link) # {}

\* C33: an item holds one semaphore slot from its admission to its exit, through
\* every call and every backoff delay of its retry sequence, and gives it back on
\* every exit path (a return, an exception, a cancellation): at every instant the
\* free slots and the items inside the guarded section add up to
\* CONCURRENT_REQUESTS, and when the batch has ended, returned or raised, every slot
\* is free.
C33_SlotsConserved ==
    stage \in Stages =>
      /\ sem >= 0
      /\ sem + Cardinality({i \in Items : pc[i] \notin {"wait", "done"}}) = CONCURRENT_REQUESTS
      /\ gather # "running" =>
           /\ sem = CONCURRENT_REQUESTS
           /\ \A i \in Items : pc[i] = "done"

\* C33 witness: every slot is taken, one of them by an item asleep between its
\* second and third attempt, while another item waits for a slot.
C33_SleeperHoldsSlot ==
    /\ RetryStage /\ gather = "running"
    /\ sem = 0
    /\ \E i, j \in Items :
         /\ pc[i] = "sleep" /\ timer[i] > 0 /\ attempt[i] = 1
         /\ pc[j] = "wait"

====
